---- MODULE Spec2Model ----
(***************************************************************************)
(* Model of the dispute arbitration contract                               *)
(* (src/contracts/src/dispute/lib.rs, DisputeContract).                    *)
(*                                                                         *)
(* The keyed persistent store is modelled as one partial function per key  *)
(* namespace; a key is present iff it is in the function's DOMAIN.  Every  *)
(* contract entry point is one action.  An entry point that panics (a      *)
(* failed assert!/expect) aborts the host transaction and stores nothing:  *)
(* for each entry point X, X_err is the panic message of the call in the   *)
(* current state ("" when it passes every check) and the action X is       *)
(* enabled exactly when X_err is "".  `last` records the last call that    *)
(* went through, with its arguments and return value.                      *)
(***************************************************************************)
EXTENDS Integers, Sequences, FiniteSets, TLC

VARIABLES
    config,     \* instance key "config": Option<DisputeConfig>
    now,        \* env.ledger().timestamp()
    d_count,    \* instance key "d_count"
    dispute,    \* ("dispute", id)            -> Dispute
    evidence,   \* ("evidence", id, index)    -> Evidence
    juror,      \* ("juror", id, index)       -> JurorSelection
    is_juror,   \* ("is_juror", id, address)  present keys
    v_commit,   \* ("v_commit", id, address)  -> VoteCommit
    v_reveal,   \* ("v_reveal", id, address)  -> VoteReveal
    stake,      \* ("stake", id, address)     -> i128
    last        \* the last transaction applied: entry point, arguments, return value

store == <<config, d_count, dispute, evidence, juror, is_juror, v_commit, v_reveal, stake>>
vars == <<config, now, d_count, dispute, evidence, juror, is_juror, v_commit, v_reveal, stake, last>>

(***************************************************************************)
(* Bounds of the model.                                                    *)
(***************************************************************************)
MaxTime == 6
MaxEvidence == 1
MaxFileTime == 1

(***************************************************************************)
(* Option<T>                                                               *)
(***************************************************************************)
None == <<>>
Some(x) == <<x>>
unwrap(o) == o[1]

(***************************************************************************)
(* Addresses and the values the callers pass.                              *)
(***************************************************************************)
Passenger == "p"
Airline == "a"
Outsiders == {"j1", "j2", "j3", "j4"}
Addresses == {Passenger, Airline} \cup Outsiders
DisputeIds == {1, 2}

BasisPoints == 10000

\* i128 `/` of Rust: the quotient truncated toward zero (b > 0)
TruncDiv(a, b) == IF a >= 0 THEN a \div b ELSE -((-a) \div b)

\* env.crypto().keccak256: a collision-resistant digest, modelled as an
\* injective encoding of the byte string
RECURSIVE keccak256(_)
keccak256(bytes) ==
    IF bytes = <<>> THEN 1 ELSE Head(bytes) + 256 * keccak256(Tail(bytes))

\* salts (BytesN<32>, shortened) and the commit hashes jurors submit: digests
\* of a vote byte followed by a salt, and one value that is no such digest
Salts == {<<7>>, <<8>>}
BogusHash == 0
CommitHashes == {keccak256(<<1, 7>>), keccak256(<<0, 8>>), BogusHash}

\* the DisputeConfig initialize stores, with every period one second
Config(jury_size) ==
    [min_stake_percentage |-> 1000, jury_size |-> jury_size,
     evidence_period |-> 1, voting_period |-> 1, reveal_period |-> 1,
     appeal_period |-> 1, appeal_stake_multiplier |-> 1200,
     jury_reward_pool_percentage |-> 6000]

(***************************************************************************)
(* The record of the last transaction.                                     *)
(***************************************************************************)
Call(op, caller, d, args, ret) ==
    [op |-> op, caller |-> caller, d |-> d, args |-> args, ret |-> ret]

Init ==
    /\ config = None
    /\ now = 0
    /\ d_count = 0
    /\ dispute = <<>>
    /\ evidence = <<>>
    /\ juror = <<>>
    /\ is_juror = {}
    /\ v_commit = <<>>
    /\ v_reveal = <<>>
    /\ stake = <<>>
    /\ last = Call("deploy", "", 0, <<>>, 0)

\* the ledger clock advances between transactions
Tick ==
    /\ now < MaxTime
    /\ now' = now + 1
    /\ last' = Call("tick", "", 0, <<>>, 0)
    /\ UNCHANGED store

initialize_err ==
    IF config # None THEN "Already initialized" ELSE ""

initialize(cfg) ==
    /\ initialize_err = ""
    /\ config' = Some(cfg)
    /\ last' = Call("initialize", "", 0, <<cfg.jury_size>>, 0)
    /\ UNCHANGED <<now, d_count, dispute, evidence, juror, is_juror, v_commit, v_reveal, stake>>

\* mutant: the quotient rounded down instead of toward zero
Percentage_floor(amount, bps) == (amount * bps) \div BasisPoints

\* amount * percentage as i128 / 10000
Percentage(amount, bps) == TruncDiv(amount * bps, BasisPoints)

\* assert!(stake >= min_stake, ..)
StakeSufficient(offered, min_stake) == offered >= min_stake

file_dispute_err(passenger, airline, refund_request_id, amount, passenger_stake) ==
    IF config = None THEN "Contract not initialized"
    ELSE IF ~StakeSufficient(passenger_stake,
                             Percentage(amount, unwrap(config).min_stake_percentage))
    THEN "Insufficient stake"
    ELSE ""

\* mutant: the deadlines are counted from the time the dispute was filed
Deadlines_anchored_at_filing(d, current_time, cfg) ==
    [d EXCEPT
       !.evidence_deadline = d.created_at + cfg.evidence_period,
       !.voting_deadline = d.created_at + cfg.evidence_period + cfg.voting_period,
       !.reveal_deadline = d.created_at + cfg.evidence_period + cfg.voting_period
                            + cfg.reveal_period,
       !.appeal_deadline = d.created_at + cfg.evidence_period + cfg.voting_period
                            + cfg.reveal_period + cfg.appeal_period]

\* the four deadlines, from the time the evidence period starts
Deadlines(d, current_time, cfg) ==
    [d EXCEPT
       !.evidence_deadline = current_time + cfg.evidence_period,
       !.voting_deadline = current_time + cfg.evidence_period + cfg.voting_period,
       !.reveal_deadline = current_time + cfg.evidence_period + cfg.voting_period
                            + cfg.reveal_period,
       !.appeal_deadline = current_time + cfg.evidence_period + cfg.voting_period
                            + cfg.reveal_period + cfg.appeal_period]

NewDispute(dispute_id, passenger, airline, refund_request_id, amount, passenger_stake, current_time, cfg) ==
    Deadlines([dispute_id |-> dispute_id,
               refund_request_id |-> refund_request_id,
               passenger |-> passenger,
               airline |-> airline,
               amount |-> amount,
               passenger_stake |-> passenger_stake,
               airline_stake |-> 0,
               phase |-> "Evidence",
               evidence_deadline |-> 0,
               voting_deadline |-> 0,
               reveal_deadline |-> 0,
               appeal_deadline |-> 0,
               passenger_evidence_count |-> 0,
               airline_evidence_count |-> 0,
               jury_size |-> cfg.jury_size,
               votes_for_passenger |-> 0,
               votes_for_airline |-> 0,
               verdict |-> None,
               appealed |-> FALSE,
               created_at |-> current_time,
               finalized_at |-> None], current_time, cfg)

\* mutant: the new dispute count is not stored
file_dispute_count_not_stored(passenger, airline, refund_request_id, amount, passenger_stake) ==
    /\ file_dispute_err(passenger, airline, refund_request_id, amount, passenger_stake) = ""
    /\ LET dispute_id == d_count + 1 IN
       /\ d_count' = d_count
       /\ dispute' = (dispute_id :>
                        NewDispute(dispute_id, passenger, airline, refund_request_id,
                                   amount, passenger_stake, now, unwrap(config)))
                     @@ dispute
       /\ stake' = (<<dispute_id, passenger>> :> passenger_stake) @@ stake
       /\ last' = Call("file_dispute", passenger, dispute_id,
                       <<airline, refund_request_id, amount, passenger_stake>>, dispute_id)
    /\ UNCHANGED <<config, now, evidence, juror, is_juror, v_commit, v_reveal>>

file_dispute(passenger, airline, refund_request_id, amount, passenger_stake) ==
    /\ file_dispute_err(passenger, airline, refund_request_id, amount, passenger_stake) = ""
    /\ LET dispute_id == d_count + 1 IN
       /\ d_count' = dispute_id
       /\ dispute' = (dispute_id :>
                        NewDispute(dispute_id, passenger, airline, refund_request_id,
                                   amount, passenger_stake, now, unwrap(config)))
                     @@ dispute
       /\ stake' = (<<dispute_id, passenger>> :> passenger_stake) @@ stake
       /\ last' = Call("file_dispute", passenger, dispute_id,
                       <<airline, refund_request_id, amount, passenger_stake>>, dispute_id)
    /\ UNCHANGED <<config, now, evidence, juror, is_juror, v_commit, v_reveal>>

\* mutant: the phase of the dispute is not checked
airline_respond_err_any_phase(airline, dispute_id, airline_stake) ==
    IF dispute_id \notin DOMAIN dispute THEN "Dispute not found"
    ELSE LET d == dispute[dispute_id] IN
    IF d.airline # airline THEN "Not the airline in dispute"
    ELSE IF d.airline_stake # 0 THEN "Already responded"
    ELSE IF config = None THEN "Not initialized"
    ELSE IF ~StakeSufficient(airline_stake,
                             Percentage(d.amount, unwrap(config).min_stake_percentage))
    THEN "Insufficient stake"
    ELSE ""

airline_respond_err(airline, dispute_id, airline_stake) ==
    IF dispute_id \notin DOMAIN dispute THEN "Dispute not found"
    ELSE LET d == dispute[dispute_id] IN
    IF d.airline # airline THEN "Not the airline in dispute"
    ELSE IF d.phase # "Evidence" THEN "Evidence phase ended"
    ELSE IF d.airline_stake # 0 THEN "Already responded"
    ELSE IF config = None THEN "Not initialized"
    ELSE IF ~StakeSufficient(airline_stake,
                             Percentage(d.amount, unwrap(config).min_stake_percentage))
    THEN "Insufficient stake"
    ELSE ""

airline_respond(airline, dispute_id, airline_stake) ==
    /\ airline_respond_err(airline, dispute_id, airline_stake) = ""
    /\ dispute' = [dispute EXCEPT ![dispute_id].airline_stake = airline_stake]
    /\ stake' = (<<dispute_id, airline>> :> airline_stake) @@ stake
    /\ last' = Call("airline_respond", airline, dispute_id, <<airline_stake>>, 0)
    /\ UNCHANGED <<config, now, d_count, evidence, juror, is_juror, v_commit, v_reveal>>

\* mutant: the submitter is not checked against the parties
submit_evidence_err_anyone(submitter, dispute_id, evidence_hash, description) ==
    IF dispute_id \notin DOMAIN dispute THEN "Dispute not found"
    ELSE LET d == dispute[dispute_id] IN
    IF ~(now <= d.evidence_deadline) THEN "Evidence period ended"
    ELSE IF d.phase # "Evidence" THEN "Not in evidence phase"
    ELSE ""

submit_evidence_err(submitter, dispute_id, evidence_hash, description) ==
    IF dispute_id \notin DOMAIN dispute THEN "Dispute not found"
    ELSE LET d == dispute[dispute_id] IN
    IF ~(now <= d.evidence_deadline) THEN "Evidence period ended"
    ELSE IF d.phase # "Evidence" THEN "Not in evidence phase"
    ELSE IF ~(submitter = d.passenger \/ submitter = d.airline) THEN "Not a party to dispute"
    ELSE ""

submit_evidence(submitter, dispute_id, evidence_hash, description) ==
    /\ submit_evidence_err(submitter, dispute_id, evidence_hash, description) = ""
    /\ LET d == dispute[dispute_id]
           is_passenger == submitter = d.passenger
           evidence_index == IF is_passenger THEN d.passenger_evidence_count
                                             ELSE d.airline_evidence_count
           ev == [dispute_id |-> dispute_id,
                  submitter |-> submitter,
                  evidence_hash |-> evidence_hash,
                  description |-> description,
                  submitted_at |-> now]
       IN
       /\ evidence' = (<<dispute_id, evidence_index>> :> ev) @@ evidence
       /\ dispute' = [dispute EXCEPT ![dispute_id] =
                        IF is_passenger
                        THEN [d EXCEPT !.passenger_evidence_count = @ + 1]
                        ELSE [d EXCEPT !.airline_evidence_count = @ + 1]]
    /\ last' = Call("submit_evidence", submitter, dispute_id, <<evidence_hash, description>>, 0)
    /\ UNCHANGED <<config, now, d_count, juror, is_juror, v_commit, v_reveal, stake>>

\* the loop of get_juror_count: the first empty slot below jury_size
RECURSIVE juror_count_from(_, _, _)
juror_count_from(dispute_id, jury_size, count) ==
    IF count < jury_size /\ <<dispute_id, count>> \in DOMAIN juror
    THEN juror_count_from(dispute_id, jury_size, count + 1)
    ELSE count

\* mutant: the count of filled slots is not read back from the store
get_juror_count_zero(dispute_id) == 0

get_juror_count(dispute_id) ==
    juror_count_from(dispute_id, dispute[dispute_id].jury_size, 0)

\* mutant: only the passenger is excluded
NotAParty_passenger_only(address, d) == address # d.passenger

\* the juror argument is neither party of the dispute
NotAParty(address, d) == address # d.passenger /\ address # d.airline

\* mutant: the lazy advance does not wait for the evidence deadline
LazyAdvance_any_time(d, current_time) ==
    IF d.phase = "Evidence" THEN "JurySelection" ELSE d.phase

\* mutant: the lazy advance already happens at the evidence deadline
LazyAdvance_at_deadline(d, current_time) ==
    IF current_time >= d.evidence_deadline /\ d.phase = "Evidence"
    THEN "JurySelection" ELSE d.phase

\* the phase select_as_juror continues with, after its lazy advance
LazyAdvance(d, current_time) ==
    IF current_time > d.evidence_deadline /\ d.phase = "Evidence"
    THEN "JurySelection" ELSE d.phase

\* mutant: every admission opens the commit round
PhaseAfterAdmission_always_commit(phase, juror_count, jury_size) == "CommitVote"

\* mutant: the commit round opens one admission early
PhaseAfterAdmission_one_early(phase, juror_count, jury_size) ==
    IF juror_count + 2 >= jury_size THEN "CommitVote" ELSE phase

\* the phase select_as_juror stores once the juror is admitted
PhaseAfterAdmission(phase, juror_count, jury_size) ==
    IF juror_count + 1 >= jury_size THEN "CommitVote" ELSE phase

\* mutant: the membership flag is not checked
select_as_juror_err_no_membership_check(address, dispute_id, token_balance) ==
    IF dispute_id \notin DOMAIN dispute THEN "Dispute not found"
    ELSE LET d == dispute[dispute_id]
             phase == LazyAdvance(d, now) IN
    IF ~(phase = "JurySelection" \/ phase = "CommitVote") THEN "Not in jury selection phase"
    ELSE IF ~(token_balance > 0) THEN "Must hold TRQ tokens"
    ELSE IF ~NotAParty(address, d) THEN "Parties cannot be jurors"
    ELSE IF ~(get_juror_count(dispute_id) < d.jury_size) THEN "Jury full"
    ELSE ""

select_as_juror_err(address, dispute_id, token_balance) ==
    IF dispute_id \notin DOMAIN dispute THEN "Dispute not found"
    ELSE LET d == dispute[dispute_id]
             phase == LazyAdvance(d, now) IN
    IF ~(phase = "JurySelection" \/ phase = "CommitVote") THEN "Not in jury selection phase"
    ELSE IF ~(token_balance > 0) THEN "Must hold TRQ tokens"
    ELSE IF <<dispute_id, address>> \in is_juror THEN "Already selected"
    ELSE IF ~NotAParty(address, d) THEN "Parties cannot be jurors"
    ELSE IF ~(get_juror_count(dispute_id) < d.jury_size) THEN "Jury full"
    ELSE ""

select_as_juror(address, dispute_id, token_balance) ==
    /\ select_as_juror_err(address, dispute_id, token_balance) = ""
    /\ LET d == dispute[dispute_id]
           juror_count == get_juror_count(dispute_id)
           selection == [dispute_id |-> dispute_id,
                         juror |-> address,
                         token_balance |-> token_balance,
                         selected_at |-> now]
       IN
       /\ juror' = (<<dispute_id, juror_count>> :> selection) @@ juror
       /\ is_juror' = is_juror \cup {<<dispute_id, address>>}
       /\ dispute' = [dispute EXCEPT ![dispute_id].phase =
                        PhaseAfterAdmission(LazyAdvance(d, now), juror_count, d.jury_size)]
    /\ last' = Call("select_as_juror", address, dispute_id, <<token_balance>>, 0)
    /\ UNCHANGED <<config, now, d_count, evidence, v_commit, v_reveal, stake>>

\* mutant: the call returns at the failed check, and the phase written by
\* the lazy advance stays stored
select_as_juror_panics_keeps_phase(address, dispute_id, token_balance) ==
    /\ dispute_id \in DOMAIN dispute
    /\ select_as_juror_err(address, dispute_id, token_balance) # ""
    /\ dispute' = [dispute EXCEPT ![dispute_id].phase = LazyAdvance(dispute[dispute_id], now)]
    /\ last' = Call("select_as_juror_panics", address, dispute_id,
                    <<token_balance, select_as_juror_err(address, dispute_id, token_balance)>>, 0)
    /\ UNCHANGED <<config, now, d_count, evidence, juror, is_juror, v_commit, v_reveal, stake>>

\* a select_as_juror call that fails one of its checks.  The lazy advance has
\* stored the dispute with phase JurySelection before the checks; the failed
\* assert! panics, the host aborts the invocation and discards its writes.
select_as_juror_panics(address, dispute_id, token_balance) ==
    /\ dispute_id \in DOMAIN dispute
    /\ select_as_juror_err(address, dispute_id, token_balance) # ""
    /\ LET written == [dispute EXCEPT ![dispute_id].phase = LazyAdvance(dispute[dispute_id], now)]
       IN dispute' = dispute    \* `written` is discarded with the invocation
    /\ last' = Call("select_as_juror_panics", address, dispute_id,
                    <<token_balance, select_as_juror_err(address, dispute_id, token_balance)>>, 0)
    /\ UNCHANGED <<config, now, d_count, evidence, juror, is_juror, v_commit, v_reveal, stake>>

\* mutant: a juror may commit again
commit_vote_err_recommit(address, dispute_id, commit_hash) ==
    IF dispute_id \notin DOMAIN dispute THEN "Dispute not found"
    ELSE LET d == dispute[dispute_id] IN
    IF ~(now <= d.voting_deadline) THEN "Voting period ended"
    ELSE IF d.phase # "CommitVote" THEN "Not in commit phase"
    ELSE IF <<dispute_id, address>> \notin is_juror THEN "Not a juror"
    ELSE ""

\* mutant: the caller is not checked against the jury
commit_vote_err_anyone(address, dispute_id, commit_hash) ==
    IF dispute_id \notin DOMAIN dispute THEN "Dispute not found"
    ELSE LET d == dispute[dispute_id] IN
    IF ~(now <= d.voting_deadline) THEN "Voting period ended"
    ELSE IF d.phase # "CommitVote" THEN "Not in commit phase"
    ELSE IF <<dispute_id, address>> \in DOMAIN v_commit THEN "Already committed"
    ELSE ""

\* mutant: the commit round closes one second early
commit_vote_err_strict(address, dispute_id, commit_hash) ==
    IF dispute_id \notin DOMAIN dispute THEN "Dispute not found"
    ELSE LET d == dispute[dispute_id] IN
    IF ~(now < d.voting_deadline) THEN "Voting period ended"
    ELSE IF d.phase # "CommitVote" THEN "Not in commit phase"
    ELSE IF <<dispute_id, address>> \notin is_juror THEN "Not a juror"
    ELSE IF <<dispute_id, address>> \in DOMAIN v_commit THEN "Already committed"
    ELSE ""

commit_vote_err(address, dispute_id, commit_hash) ==
    IF dispute_id \notin DOMAIN dispute THEN "Dispute not found"
    ELSE LET d == dispute[dispute_id] IN
    IF ~(now <= d.voting_deadline) THEN "Voting period ended"
    ELSE IF d.phase # "CommitVote" THEN "Not in commit phase"
    ELSE IF <<dispute_id, address>> \notin is_juror THEN "Not a juror"
    ELSE IF <<dispute_id, address>> \in DOMAIN v_commit THEN "Already committed"
    ELSE ""

commit_vote(address, dispute_id, commit_hash) ==
    /\ commit_vote_err(address, dispute_id, commit_hash) = ""
    /\ v_commit' = (<<dispute_id, address>> :>
                      [dispute_id |-> dispute_id,
                       juror |-> address,
                       commit_hash |-> commit_hash,
                       committed_at |-> now]) @@ v_commit
    /\ last' = Call("commit_vote", address, dispute_id, <<commit_hash>>, 0)
    /\ UNCHANGED <<config, now, d_count, dispute, evidence, juror, is_juror, v_reveal, stake>>

advance_to_reveal_err(dispute_id) ==
    IF dispute_id \notin DOMAIN dispute THEN "Dispute not found"
    ELSE LET d == dispute[dispute_id] IN
    IF ~(now > d.voting_deadline) THEN "Voting period not ended"
    ELSE IF d.phase # "CommitVote" THEN "Not in commit phase"
    ELSE ""

\* mutant: the reveal round is opened on every dispute in its commit round
advance_to_reveal_every_dispute(dispute_id) ==
    /\ advance_to_reveal_err(dispute_id) = ""
    /\ dispute' = [i \in DOMAIN dispute |->
                     IF dispute[i].phase = "CommitVote"
                     THEN [dispute[i] EXCEPT !.phase = "RevealVote"] ELSE dispute[i]]
    /\ last' = Call("advance_to_reveal", "", dispute_id, <<>>, 0)
    /\ UNCHANGED <<config, now, d_count, evidence, juror, is_juror, v_commit, v_reveal, stake>>

advance_to_reveal(dispute_id) ==
    /\ advance_to_reveal_err(dispute_id) = ""
    /\ dispute' = [dispute EXCEPT ![dispute_id].phase = "RevealVote"]
    /\ last' = Call("advance_to_reveal", "", dispute_id, <<>>, 0)
    /\ UNCHANGED <<config, now, d_count, evidence, juror, is_juror, v_commit, v_reveal, stake>>

\* mutant: the salt is left out of the hash input
RevealHashBytes_no_salt(vote_for_passenger, salt) ==
    <<IF vote_for_passenger THEN 1 ELSE 0>>

\* the hash input of reveal_vote: the vote (1 byte) followed by the salt
RevealHashBytes(vote_for_passenger, salt) ==
    <<IF vote_for_passenger THEN 1 ELSE 0>> \o salt

\* mutant: a juror may reveal again
reveal_vote_err_rereveal(address, dispute_id, vote_for_passenger, salt) ==
    IF dispute_id \notin DOMAIN dispute THEN "Dispute not found"
    ELSE LET d == dispute[dispute_id] IN
    IF ~(now <= d.reveal_deadline) THEN "Reveal period ended"
    ELSE IF d.phase # "RevealVote" THEN "Not in reveal phase"
    ELSE IF <<dispute_id, address>> \notin DOMAIN v_commit THEN "No commit found"
    ELSE IF keccak256(RevealHashBytes(vote_for_passenger, salt))
              # v_commit[<<dispute_id, address>>].commit_hash
    THEN "Invalid reveal"
    ELSE ""

reveal_vote_err(address, dispute_id, vote_for_passenger, salt) ==
    IF dispute_id \notin DOMAIN dispute THEN "Dispute not found"
    ELSE LET d == dispute[dispute_id] IN
    IF ~(now <= d.reveal_deadline) THEN "Reveal period ended"
    ELSE IF d.phase # "RevealVote" THEN "Not in reveal phase"
    ELSE IF <<dispute_id, address>> \notin DOMAIN v_commit THEN "No commit found"
    ELSE IF <<dispute_id, address>> \in DOMAIN v_reveal THEN "Already revealed"
    ELSE IF keccak256(RevealHashBytes(vote_for_passenger, salt))
              # v_commit[<<dispute_id, address>>].commit_hash
    THEN "Invalid reveal"
    ELSE ""

\* the tally update of reveal_vote
Tally(d, vote_for_passenger) ==
    IF vote_for_passenger
    THEN [d EXCEPT !.votes_for_passenger = @ + 1]
    ELSE [d EXCEPT !.votes_for_airline = @ + 1]

reveal_vote(address, dispute_id, vote_for_passenger, salt) ==
    /\ reveal_vote_err(address, dispute_id, vote_for_passenger, salt) = ""
    /\ v_reveal' = (<<dispute_id, address>> :>
                      [dispute_id |-> dispute_id,
                       juror |-> address,
                       vote_for_passenger |-> vote_for_passenger,
                       salt |-> salt,
                       revealed_at |-> now]) @@ v_reveal
    /\ dispute' = [dispute EXCEPT ![dispute_id] = Tally(@, vote_for_passenger)]
    /\ last' = Call("reveal_vote", address, dispute_id, <<vote_for_passenger, salt>>, 0)
    /\ UNCHANGED <<config, now, d_count, evidence, juror, is_juror, v_commit, stake>>

finalize_dispute_err(dispute_id) ==
    IF dispute_id \notin DOMAIN dispute THEN "Dispute not found"
    ELSE LET d == dispute[dispute_id] IN
    IF ~(now > d.reveal_deadline) THEN "Reveal period not ended"
    ELSE IF d.phase # "RevealVote" THEN "Not in reveal phase"
    ELSE IF ~(d.votes_for_passenger + d.votes_for_airline > 0) THEN "No votes revealed"
    ELSE ""

\* mutant: equal tallies go to the passenger
Verdict_tie_to_passenger(votes_for_passenger, votes_for_airline) ==
    IF votes_for_passenger >= votes_for_airline THEN "passenger" ELSE "airline"

\* the verdict finalize_dispute computes from the two tallies
Verdict(votes_for_passenger, votes_for_airline) ==
    IF votes_for_passenger > votes_for_airline THEN "passenger"
    ELSE IF votes_for_airline > votes_for_passenger THEN "airline"
    ELSE "tie"

finalize_dispute(dispute_id) ==
    /\ finalize_dispute_err(dispute_id) = ""
    /\ dispute' = [dispute EXCEPT
                     ![dispute_id].verdict = Some(Verdict(dispute[dispute_id].votes_for_passenger,
                                                          dispute[dispute_id].votes_for_airline)),
                     ![dispute_id].phase = "Appeal",
                     ![dispute_id].finalized_at = Some(now)]
    /\ last' = Call("finalize_dispute", "", dispute_id, <<>>, 0)
    /\ UNCHANGED <<config, now, d_count, evidence, juror, is_juror, v_commit, v_reveal, stake>>

\* mutant: either party may appeal a decided verdict
IsLosingParty_either_party(d, appellant) ==
    /\ unwrap(d.verdict) \in {"airline", "passenger"}
    /\ appellant \in {d.passenger, d.airline}

\* mutant: on a tie both parties count as losing
IsLosingParty_tie_appealable(d, appellant) ==
    \/ unwrap(d.verdict) = "airline" /\ appellant = d.passenger
    \/ unwrap(d.verdict) = "passenger" /\ appellant = d.airline
    \/ unwrap(d.verdict) = "tie" /\ appellant \in {d.passenger, d.airline}

\* is_losing_party of file_appeal
IsLosingParty(d, appellant) ==
    \/ unwrap(d.verdict) = "airline" /\ appellant = d.passenger
    \/ unwrap(d.verdict) = "passenger" /\ appellant = d.airline

file_appeal_err(appellant, dispute_id, appeal_stake) ==
    IF dispute_id \notin DOMAIN dispute THEN "Dispute not found"
    ELSE LET d == dispute[dispute_id] IN
    IF ~(now <= d.appeal_deadline) THEN "Appeal period ended"
    ELSE IF d.phase # "Appeal" THEN "Not in appeal phase"
    ELSE IF d.appealed THEN "Already appealed"
    ELSE IF d.verdict = None THEN "No verdict"
    ELSE IF ~IsLosingParty(d, appellant) THEN "Only losing party can appeal"
    ELSE IF config = None THEN "Not initialized"
    ELSE IF ~StakeSufficient(appeal_stake,
                             Percentage(d.amount, unwrap(config).appeal_stake_multiplier))
    THEN "Insufficient appeal stake"
    ELSE ""

\* mutant: the appealed flag is not set
Appealed_flag_not_set(d, current_time, cfg) ==
    [Deadlines(d, current_time, cfg) EXCEPT
       !.phase = "Evidence",
       !.votes_for_passenger = 0,
       !.votes_for_airline = 0,
       !.verdict = None]

\* mutant: the appeal reopens the commit round
Appealed_reopens_commit(d, current_time, cfg) ==
    [Deadlines(d, current_time, cfg) EXCEPT
       !.appealed = TRUE,
       !.phase = "CommitVote",
       !.votes_for_passenger = 0,
       !.votes_for_airline = 0,
       !.verdict = None]

\* mutant: the appeal keeps the verdict of the first round
Appealed_keeps_verdict(d, current_time, cfg) ==
    [Deadlines(d, current_time, cfg) EXCEPT
       !.appealed = TRUE,
       !.phase = "Evidence",
       !.votes_for_passenger = 0,
       !.votes_for_airline = 0]

\* the dispute record file_appeal stores
Appealed(d, current_time, cfg) ==
    [Deadlines(d, current_time, cfg) EXCEPT
       !.appealed = TRUE,
       !.phase = "Evidence",
       !.votes_for_passenger = 0,
       !.votes_for_airline = 0,
       !.verdict = None]

\* mutant: the stake already recorded is not read
get_stake_fresh(dispute_id, party) == 0

get_stake(dispute_id, party) ==
    IF <<dispute_id, party>> \in DOMAIN stake THEN stake[<<dispute_id, party>>] ELSE 0

file_appeal(appellant, dispute_id, appeal_stake) ==
    /\ file_appeal_err(appellant, dispute_id, appeal_stake) = ""
    /\ dispute' = [dispute EXCEPT ![dispute_id] = Appealed(@, now, unwrap(config))]
    /\ stake' = (<<dispute_id, appellant>> :> get_stake(dispute_id, appellant) + appeal_stake)
                @@ stake
    /\ last' = Call("file_appeal", appellant, dispute_id, <<appeal_stake>>, 0)
    /\ UNCHANGED <<config, now, d_count, evidence, juror, is_juror, v_commit, v_reveal>>

\* (passenger_stake + airline_stake) * jury_reward_pool_percentage / 10000
JuryRewardPool(d, cfg) ==
    Percentage(d.passenger_stake + d.airline_stake, cfg.jury_reward_pool_percentage)

\* mutant: the appeal window is not waited for
execute_verdict_err_no_deadline(dispute_id) ==
    IF dispute_id \notin DOMAIN dispute THEN "Dispute not found"
    ELSE LET d == dispute[dispute_id] IN
    IF d.verdict = None THEN "No verdict"
    ELSE IF ~(unwrap(d.verdict) # "tie") THEN "Cannot execute tie verdict"
    ELSE IF config = None THEN "Not initialized"
    ELSE ""

execute_verdict_err(dispute_id) ==
    IF dispute_id \notin DOMAIN dispute THEN "Dispute not found"
    ELSE LET d == dispute[dispute_id] IN
    IF d.phase = "Appeal" /\ ~(now > d.appeal_deadline) THEN "Appeal period not ended"
    ELSE IF d.verdict = None THEN "No verdict"
    ELSE IF ~(unwrap(d.verdict) # "tie") THEN "Cannot execute tie verdict"
    ELSE IF config = None THEN "Not initialized"
    ELSE ""

\* returns nothing; `ret` records the reward pool of the published event
execute_verdict(dispute_id) ==
    /\ execute_verdict_err(dispute_id) = ""
    /\ dispute' = [dispute EXCEPT ![dispute_id].phase = "Finalized"]
    /\ last' = Call("execute_verdict", "", dispute_id, <<>>,
                    JuryRewardPool(dispute[dispute_id], unwrap(config)))
    /\ UNCHANGED <<config, now, d_count, evidence, juror, is_juror, v_commit, v_reveal, stake>>

\* mutant: every revealed vote counts as voted with the majority
VotedCorrectly_any(verdict, vote_for_passenger) == verdict # "tie"

\* voted_correctly of claim_juror_reward
VotedCorrectly(verdict, vote_for_passenger) ==
    \/ verdict = "passenger" /\ vote_for_passenger
    \/ verdict = "airline" /\ ~vote_for_passenger

\* winning_votes of claim_juror_reward
WinningVotes(d) ==
    IF unwrap(d.verdict) = "passenger" THEN d.votes_for_passenger ELSE d.votes_for_airline

claim_juror_reward_err(address, dispute_id) ==
    IF dispute_id \notin DOMAIN dispute THEN "Dispute not found"
    ELSE LET d == dispute[dispute_id] IN
    IF d.phase # "Finalized" THEN "Dispute not finalized"
    ELSE IF <<dispute_id, address>> \notin DOMAIN v_reveal THEN "No vote revealed"
    ELSE IF d.verdict = None THEN "No verdict"
    ELSE IF ~VotedCorrectly(unwrap(d.verdict), v_reveal[<<dispute_id, address>>].vote_for_passenger)
    THEN "Did not vote with majority"
    ELSE IF config = None THEN "Not initialized"
    ELSE IF WinningVotes(d) = 0 THEN "attempt to divide by zero"
    ELSE ""

\* the value claim_juror_reward returns
Reward(d, cfg) == TruncDiv(JuryRewardPool(d, cfg), WinningVotes(d))

\* mutant: a claim consumes the juror's reveal, so that it pays once
claim_juror_reward_once(address, dispute_id) ==
    /\ claim_juror_reward_err(address, dispute_id) = ""
    /\ v_reveal' = [k \in DOMAIN v_reveal \ {<<dispute_id, address>>} |-> v_reveal[k]]
    /\ last' = Call("claim_juror_reward", address, dispute_id, <<>>,
                    Reward(dispute[dispute_id], unwrap(config)))
    /\ UNCHANGED <<config, now, d_count, dispute, evidence, juror, is_juror, v_commit, stake>>

claim_juror_reward(address, dispute_id) ==
    /\ claim_juror_reward_err(address, dispute_id) = ""
    /\ last' = Call("claim_juror_reward", address, dispute_id, <<>>,
                    Reward(dispute[dispute_id], unwrap(config)))
    /\ UNCHANGED <<now, store>>

(***************************************************************************)
(* The calls the environment makes.  I gives the values the callers pass.  *)
(***************************************************************************)
NextOver(I) ==
    \/ Tick
    \/ \E js \in I.jury_sizes : initialize(Config(js))
    \/ \E f \in I.filings :
           /\ d_count < I.max_disputes
           /\ now <= MaxFileTime
           /\ file_dispute(Passenger, Airline, 1, f[1], f[2])
    \/ \E r \in I.responses, id \in DisputeIds : airline_respond(r[1], id, r[2])
    \/ \E a \in I.submitters, id \in DisputeIds :
           /\ id \in DOMAIN dispute
           /\ dispute[id].passenger_evidence_count + dispute[id].airline_evidence_count
                < I.max_evidence
           /\ submit_evidence(a, id, 11, "doc")
    \/ \E c \in I.selections, id \in DisputeIds : select_as_juror(c[1], id, c[2])
    \/ \E c \in I.commits, id \in DisputeIds : commit_vote(c[1], id, c[2])
    \/ \E id \in DisputeIds : advance_to_reveal(id)
    \/ \E c \in I.reveals, id \in DisputeIds : reveal_vote(c[1], id, c[2], c[3])
    \/ \E id \in DisputeIds : finalize_dispute(id)
    \/ \E c \in I.appeals, id \in DisputeIds : file_appeal(c[1], id, c[2])
    \/ \E id \in DisputeIds : execute_verdict(id)
    \/ \E a \in I.claimants, id \in DisputeIds : claim_juror_reward(a, id)

\* the values of the callers: juries of one and of two
Inputs ==
    [jury_sizes |-> {1, 2},
     max_disputes |-> 1,
     max_evidence |-> MaxEvidence,
     filings    |-> {<<25, 1>>, <<25, 2>>, <<-25, -3>>, <<-25, -2>>},
     responses  |-> {<<Airline, 1>>, <<Airline, 3>>, <<Passenger, 3>>},
     submitters |-> {Passenger, Airline, "j1"},
     selections |-> ({Passenger, Airline, "j1", "j2"} \X {10}) \cup {<<"j1", 0>>},
     commits    |-> {"j1", "j2", Passenger} \X CommitHashes,
     reveals    |-> {"j1", "j2", Passenger} \X BOOLEAN \X Salts,
     appeals    |-> {Passenger, Airline, "j1"} \X {2, 3},
     claimants  |-> {"j1", "j2", Passenger}]

Next == NextOver(Inputs)

Spec == Init /\ [][Next]_vars

\* the values of the callers: a jury of three, so that a verdict has a minority
Inputs3 ==
    [jury_sizes |-> {3},
     max_disputes |-> 1,
     max_evidence |-> MaxEvidence,
     filings    |-> {<<25, 1>>, <<25, 2>>},
     responses  |-> {<<Airline, 3>>},
     submitters |-> {Passenger},
     selections |-> {"j1", "j2", "j3", Airline} \X {10},
     commits    |-> {"j1", "j2", "j3"} \X {keccak256(<<1, 7>>), keccak256(<<0, 8>>)},
     reveals    |-> {"j1", "j2", "j3"} \X BOOLEAN \X Salts,
     appeals    |-> {Passenger, Airline} \X {3},
     claimants  |-> {"j1", "j2", "j3"}]

Next3 == NextOver(Inputs3)

Spec3 == Init /\ [][Next3]_vars

\* the values of the callers: both parties submit evidence, and a claim too
\* small for a positive stake floor
InputsE ==
    [jury_sizes |-> {2},
     max_disputes |-> 1,
     max_evidence |-> MaxEvidence + 1,
     filings    |-> {<<5, 0>>, <<25, 2>>},
     responses  |-> {<<Airline, 0>>, <<Airline, 3>>},
     submitters |-> {Passenger, Airline},
     selections |-> {"j1", "j2"} \X {10},
     commits    |-> {"j1", "j2"} \X {keccak256(<<1, 7>>), keccak256(<<0, 8>>)},
     reveals    |-> {"j1", "j2"} \X BOOLEAN \X Salts,
     appeals    |-> {Passenger, Airline} \X {3},
     claimants  |-> {"j1", "j2"}]

NextE == NextOver(InputsE)

SpecE == Init /\ [][NextE]_vars

\* the values of the callers: one dispute, and juror candidates whose calls
\* are refused (a party, no token weight, selected twice, a full jury)
InputsP ==
    [jury_sizes |-> {2},
     max_disputes |-> 1,
     max_evidence |-> MaxEvidence,
     filings    |-> {<<25, 2>>},
     responses  |-> {<<Airline, 3>>},
     submitters |-> {Passenger},
     selections |-> {"j1", "j2"} \X {10},
     commits    |-> {<<"j1", keccak256(<<1, 7>>)>>, <<"j2", keccak256(<<0, 8>>)>>},
     reveals    |-> {<<"j1", TRUE, <<7>>>>, <<"j2", FALSE, <<8>>>>},
     appeals    |-> {Passenger, Airline} \X {3},
     claimants  |-> {"j1", "j2"},
     refused    |-> {<<Passenger, 10>>, <<"j1", 10>>, <<"j2", 0>>, <<"j3", 10>>}]

NextP ==
    \/ NextOver(InputsP)
    \/ \E c \in InputsP.refused, id \in DisputeIds : select_as_juror_panics(c[1], id, c[2])

SpecP == Init /\ [][NextP]_vars

\* configurations initialize accepts besides Config: periods of zero seconds,
\* and periods of different lengths
ConfigsZ ==
    {[Config(1) EXCEPT !.voting_period = 0, !.appeal_period = 0],
     [Config(1) EXCEPT !.evidence_period = 2, !.reveal_period = 2]}

InputsZ ==
    [jury_sizes |-> {1},
     max_disputes |-> 1,
     max_evidence |-> MaxEvidence,
     filings    |-> {<<25, 2>>},
     responses  |-> {<<Airline, 3>>},
     submitters |-> {Passenger, Airline},
     selections |-> {"j1", "j2"} \X {10},
     commits    |-> {"j1"} \X {keccak256(<<1, 7>>), keccak256(<<0, 8>>)},
     reveals    |-> {"j1"} \X BOOLEAN \X Salts,
     appeals    |-> {Passenger, Airline} \X {3},
     claimants  |-> {"j1"}]

NextZ ==
    \/ NextOver(InputsZ)
    \/ \E cfg \in ConfigsZ : initialize(cfg)

SpecZ == Init /\ [][NextZ]_vars

\* the values of the callers: two disputes between the same parties over the
\* same amount, with one juror candidate who may sit on both
InputsTwo ==
    [jury_sizes |-> {1},
     max_disputes |-> 2,
     max_evidence |-> MaxEvidence,
     filings    |-> {<<25, 2>>},
     responses  |-> {<<Airline, 3>>},
     submitters |-> {Passenger},
     selections |-> {<<"j1", 10>>},
     commits    |-> {<<"j1", keccak256(<<1, 7>>)>>},
     reveals    |-> {<<"j1", TRUE, <<7>>>>},
     appeals    |-> {<<Airline, 4>>},
     claimants  |-> {"j1"}]

NextTwo == NextOver(InputsTwo)

SpecTwo == Init /\ [][NextTwo]_vars

(***************************************************************************)
(* Properties                                                              *)
(***************************************************************************)

\* the stored reveals of a dispute, and those for one side
Reveals(id) == {k \in DOMAIN v_reveal : k[1] = id}
RevealsFor(id, side) == {k \in Reveals(id) : v_reveal[k].vote_for_passenger = side}

\* the quotient of x by y > 0 rounded toward zero, by its defining inequalities
QuotientTowardZero(x, y) ==
    CHOOSE q \in -4..4 :
        IF x >= 0 THEN q * y <= x /\ x < (q + 1) * y
                  ELSE q * y >= x /\ x > (q - 1) * y

\* a juror with a stored commit and no stored reveal, while reveals are accepted
RevealPending(id, j) ==
    /\ dispute[id].phase = "RevealVote"
    /\ now <= dispute[id].reveal_deadline
    /\ <<id, j>> \in DOMAIN v_commit
    /\ <<id, j>> \notin DOMAIN v_reveal

\* C1: while reveals are accepted, a juror with a commit and no reveal succeeds
\* in reveal_vote(vote, salt) iff the digest of the vote byte followed by the
\* salt is the stored commit hash; every other pair fails with "Invalid reveal"
\* (at most one pair succeeds), and a reveal that went through reproduces the
\* stored commit.
C1_CommitRevealBinding ==
    /\ \A id \in DOMAIN dispute, j \in Addresses :
         RevealPending(id, j) =>
           \A v \in BOOLEAN, s \in Salts :
             LET matches == keccak256(<<IF v THEN 1 ELSE 0>> \o s)
                              = v_commit[<<id, j>>].commit_hash
                 err == reveal_vote_err(j, id, v, s)
             IN /\ (err = "") <=> matches
                /\ ~matches => err = "Invalid reveal"
                /\ err = "" =>
                     \A v2 \in BOOLEAN, s2 \in Salts :
                        reveal_vote_err(j, id, v2, s2) = "" => (v2 = v /\ s2 = s)
    /\ last.op = "reveal_vote" =>
         LET k == <<last.d, last.caller>> IN
         /\ k \in DOMAIN v_reveal
         /\ v_reveal[k].vote_for_passenger = last.args[1]
         /\ v_reveal[k].salt = last.args[2]
         /\ keccak256(<<IF last.args[1] THEN 1 ELSE 0>> \o last.args[2])
              = v_commit[k].commit_hash

\* C1 witness: one juror has just revealed, and another juror's reveal with the
\* committed vote bit but another salt is refused
C1_Witness ==
    /\ last.op = "reveal_vote"
    /\ \E j \in Addresses, v \in BOOLEAN, s \in Salts, s2 \in Salts :
         /\ RevealPending(last.d, j)
         /\ s2 # s
         /\ reveal_vote_err(j, last.d, v, s) = ""
         /\ reveal_vote_err(j, last.d, v, s2) = "Invalid reveal"

C2_Amounts == {-25, -15, 0, 25}
C2_Stakes == -3..3

\* C2: on an initialized contract file_dispute fails iff the stake is below
\* amount * min_stake_percentage / 10000, the quotient rounded toward zero; a
\* filing that went through created the dispute in phase Evidence and recorded
\* the stake.
C2_FileDisputeStakeFloor ==
    /\ config # None =>
         \A amount \in C2_Amounts, s \in C2_Stakes :
           (file_dispute_err(Passenger, Airline, 1, amount, s) # "")
             <=> (s < QuotientTowardZero(amount * unwrap(config).min_stake_percentage, 10000))
    /\ last.op = "file_dispute" =>
         /\ last.ret \in DOMAIN dispute
         /\ dispute[last.ret].phase = "Evidence"
         /\ dispute[last.ret].passenger_stake = last.args[4]
         /\ get_stake(last.ret, last.caller) = last.args[4]
         /\ last.args[4] >= QuotientTowardZero(
                               last.args[3] * unwrap(config).min_stake_percentage, 10000)

\* C2 witness: a filing with a negative amount and a stake exactly at the floor
C2_Witness ==
    /\ last.op = "file_dispute"
    /\ last.args[3] < 0
    /\ last.args[4] = QuotientTowardZero(
                         last.args[3] * unwrap(config).min_stake_percentage, 10000)
    /\ file_dispute_err(Passenger, Airline, 1, last.args[3], last.args[4] - 1) = "Insufficient stake"

\* C3: select_as_juror by the passenger or the airline of a dispute fails in
\* every state, and neither party is flagged is_juror or holds a juror slot.
C3_PartyNeverJuror ==
    \A id \in DOMAIN dispute :
      LET parties == {dispute[id].passenger, dispute[id].airline} IN
      /\ \A a \in parties, b \in {0, 10} : select_as_juror_err(a, id, b) # ""
      /\ \A a \in parties : <<id, a>> \notin is_juror
      /\ \A k \in DOMAIN juror : k[1] = id => juror[k].juror \notin parties

\* C3 witness: a juror has just been admitted and a seat is still free, and
\* the airline is turned away for being a party
C3_Witness ==
    /\ last.op = "select_as_juror"
    /\ select_as_juror_err("j2", last.d, 10) = ""
    /\ select_as_juror_err(Airline, last.d, 10) = "Parties cannot be jurors"
    /\ select_as_juror_err(Passenger, last.d, 10) = "Parties cannot be jurors"

\* C4: for every dispute votes_for_passenger + votes_for_airline is the number
\* of stored VoteReveal records, and votes_for_passenger the number of those
\* whose vote is true.
C4_TallyInvariant ==
    \A id \in DOMAIN dispute :
      /\ dispute[id].votes_for_passenger + dispute[id].votes_for_airline
           = Cardinality(Reveals(id))
      /\ dispute[id].votes_for_passenger = Cardinality(RevealsFor(id, TRUE))

\* C5: finalize_dispute goes through exactly when the phase is RevealVote, the
\* reveal deadline has passed and a vote was revealed; once it went through
\* the verdict is the strict majority of the two tallies (tie when equal), the
\* phase is Appeal and finalized_at is the time of the call.
C5_FinalizeVerdict ==
    /\ \A id \in DOMAIN dispute :
         (finalize_dispute_err(id) = "")
           <=> /\ dispute[id].phase = "RevealVote"
               /\ now > dispute[id].reveal_deadline
               /\ Reveals(id) # {}
    /\ last.op = "finalize_dispute" =>
         LET d == dispute[last.d]
             p == d.votes_for_passenger
             a == d.votes_for_airline
         IN /\ d.phase = "Appeal"
            /\ d.finalized_at = Some(now)
            /\ p + a >= 1
            /\ p > a => d.verdict = Some("passenger")
            /\ a > p => d.verdict = Some("airline")
            /\ a = p => d.verdict = Some("tie")

\* C5 witness: a dispute has just been finalized on equal tallies
C5_Witness ==
    /\ last.op = "finalize_dispute"
    /\ dispute[last.d].votes_for_passenger = dispute[last.d].votes_for_airline
    /\ dispute[last.d].verdict = Some("tie")

C6_Edges ==
    {<<"Evidence", "JurySelection">>, <<"JurySelection", "CommitVote">>,
     <<"CommitVote", "RevealVote">>, <<"RevealVote", "Appeal">>,
     <<"Appeal", "Evidence">>, <<"Appeal", "Finalized">>}

\* C6 as stated: every change of a dispute's phase in one step follows an edge
\* of the state machine.
C6_EveryStepOneEdge ==
    [][\A id \in DOMAIN dispute :
         dispute'[id].phase # dispute[id].phase =>
           <<dispute[id].phase, dispute'[id].phase>> \in C6_Edges]_vars

\* C6, amended: every change of a dispute's phase in one step follows an edge
\* of the state machine, except that with jury_size = 1 the select_as_juror
\* call that admits the only juror takes the dispute from Evidence to
\* CommitVote (through JurySelection inside the call).
C6_EdgesOrSingleJurorSkip ==
    [][\A id \in DOMAIN dispute :
         dispute'[id].phase # dispute[id].phase =>
           \/ <<dispute[id].phase, dispute'[id].phase>> \in C6_Edges
           \/ /\ <<dispute[id].phase, dispute'[id].phase>> = <<"Evidence", "CommitVote">>
              /\ dispute[id].jury_size = 1
              /\ last'.op = "select_as_juror"
              /\ last'.d = id]_vars

\* C6 witness: the only juror of a one-seat jury has just been admitted
C6_Witness ==
    /\ last.op = "select_as_juror"
    /\ dispute[last.d].jury_size = 1
    /\ dispute[last.d].phase = "CommitVote"
    /\ get_juror_count(last.d) = 1

\* C7: a file_appeal that goes through acts on a dispute not appealed before,
\* and leaves both tallies 0, the verdict None, the phase Evidence and
\* appealed true; appealed stays true from then on, and on an appealed dispute
\* every file_appeal fails.
C7_AppealOnce ==
    [][\A id \in DOMAIN dispute' :
         /\ (last'.op = "file_appeal" /\ last'.d = id) =>
              /\ id \in DOMAIN dispute
              /\ ~dispute[id].appealed
              /\ dispute'[id].appealed
              /\ dispute'[id].votes_for_passenger = 0
              /\ dispute'[id].votes_for_airline = 0
              /\ dispute'[id].verdict = None
              /\ dispute'[id].phase = "Evidence"
         /\ (id \in DOMAIN dispute /\ dispute[id].appealed) => dispute'[id].appealed
         /\ dispute'[id].appealed =>
              \A a \in Addresses, st \in {2, 3, 50} : (file_appeal_err(a, id, st))' # ""]_vars

\* C7 witness: an appeal has just gone through and the appellant's next appeal
\* is refused
C7_Witness ==
    /\ last.op = "file_appeal"
    /\ dispute[last.d].appealed
    /\ file_appeal_err(last.caller, last.d, last.args[1]) # ""

\* C8: after an appeal, once the new evidence deadline has passed, a
\* token-holding address that is no party and was never selected is admitted
\* by select_as_juror.
C8_FreshJuryAfterAppeal ==
    \A id \in DOMAIN dispute :
      (dispute[id].appealed /\ now > dispute[id].evidence_deadline
         /\ dispute[id].phase \in {"Evidence", "JurySelection"}) =>
        \A a \in Outsiders :
          <<id, a>> \notin is_juror => select_as_juror_err(a, id, 10) = ""

\* C9: claim_juror_reward goes through iff the dispute is Finalized, the juror
\* has a stored reveal and the revealed vote is on the verdict's side; a
\* minority reveal fails with "Did not vote with majority", no reveal with
\* "No vote revealed".
C9_RewardOnlyForMajority ==
    \A id \in DOMAIN dispute, a \in Addresses :
      LET d == dispute[id]
          k == <<id, a>>
          err == claim_juror_reward_err(a, id)
          on_verdict_side ==
              /\ k \in DOMAIN v_reveal
              /\ \/ d.verdict = Some("passenger") /\ v_reveal[k].vote_for_passenger
                 \/ d.verdict = Some("airline") /\ ~v_reveal[k].vote_for_passenger
      IN /\ (err = "") <=> (d.phase = "Finalized" /\ on_verdict_side)
         /\ (d.phase = "Finalized" /\ k \in DOMAIN v_reveal /\ ~on_verdict_side)
              => err = "Did not vote with majority"
         /\ (d.phase = "Finalized" /\ k \notin DOMAIN v_reveal) => err = "No vote revealed"

\* C9 witness: a majority juror has just claimed, one juror revealed the
\* minority vote and one address has no reveal
C9_Witness ==
    /\ last.op = "claim_juror_reward"
    /\ \E a \in Addresses : claim_juror_reward_err(a, last.d) = "Did not vote with majority"
    /\ \E a \in Addresses : claim_juror_reward_err(a, last.d) = "No vote revealed"

\* the remainder of x by y > 0 with the sign of x (i128 `%`)
RemainderTowardZero(x, y) == x - y * QuotientTowardZero(x, y)

\* C10: a claim that went through returned pool / m, with pool the reward
\* pool of the two stakes and m >= 1 the number of jurors who revealed the
\* verdict's vote; m such claims add up to pool - (pool mod m), which does
\* not exceed pool.
C10_RewardArithmetic ==
    last.op = "claim_juror_reward" =>
      LET d == dispute[last.d]
          pool == QuotientTowardZero(
                     (d.passenger_stake + d.airline_stake)
                        * unwrap(config).jury_reward_pool_percentage, 10000)
          m == Cardinality(RevealsFor(last.d, d.verdict = Some("passenger")))
      IN /\ m >= 1
         /\ last.ret = QuotientTowardZero(pool, m)
         /\ m * last.ret = pool - RemainderTowardZero(pool, m)
         /\ m * last.ret <= pool

\* C11: a claim_juror_reward that goes through writes nothing to the store
\* (no claimed marker), so the same juror's next claim goes through as well
\* and returns the same reward; with a positive reward, repeated claims of one
\* juror exceed the reward pool.
C11_ClaimWritesNothing ==
    [][\A a \in Addresses, id \in DOMAIN dispute :
         (last'.op = "claim_juror_reward" /\ last'.caller = a /\ last'.d = id) =>
         LET pool == JuryRewardPool(dispute[id], unwrap(config))
         IN /\ store' = store
            /\ now' = now
            /\ dispute[id].phase = "Finalized"
            /\ (claim_juror_reward_err(a, id))' = ""
            /\ last'.ret = (Reward(dispute[id], unwrap(config)))'
            /\ last'.ret > 0 => (pool + 1) * last'.ret > pool]_vars

\* C11 witness: a juror has just been paid a positive reward, the same claim
\* is still open to that juror, and two such claims exceed the pool
C11_Witness ==
    /\ last.op = "claim_juror_reward"
    /\ last.ret > 0
    /\ claim_juror_reward_err(last.caller, last.d) = ""
    /\ 2 * last.ret > JuryRewardPool(dispute[last.d], unwrap(config))

\* a juror of the dispute with no stored commit
Uncommitted(id, j) == <<id, j>> \in is_juror /\ <<id, j>> \notin DOMAIN v_commit

\* C12: in phase CommitVote, commit_vote of an uncommitted juror goes through
\* at every time up to and including voting_deadline and fails with "Voting
\* period ended" after it; advance_to_reveal goes through exactly after
\* voting_deadline; never both at one time.
C12_CommitDeadlineBoundary ==
    \A id \in DOMAIN dispute :
      dispute[id].phase = "CommitVote" =>
        LET vd == dispute[id].voting_deadline IN
        /\ \A j \in Addresses, h \in CommitHashes :
             Uncommitted(id, j) =>
               /\ now <= vd => commit_vote_err(j, id, h) = ""
               /\ now > vd => commit_vote_err(j, id, h) = "Voting period ended"
        /\ (advance_to_reveal_err(id) = "") <=> (now > vd)
        /\ ~(/\ advance_to_reveal_err(id) = ""
             /\ \E j \in Addresses, h \in CommitHashes : commit_vote_err(j, id, h) = "")

\* C12 witness: at exactly voting_deadline one juror has just committed, the
\* other juror's commit is still accepted and advance_to_reveal is refused
C12_Witness ==
    /\ last.op = "commit_vote"
    /\ now = dispute[last.d].voting_deadline
    /\ \E j \in Addresses :
         /\ Uncommitted(last.d, j)
         /\ commit_vote_err(j, last.d, BogusHash) = ""
    /\ advance_to_reveal_err(last.d) = "Voting period not ended"

\* C13: a Finalized dispute has verdict passenger or airline and the clock is
\* past its appeal_deadline; execute_verdict is refused while the appeal
\* window is open and on a tie.
C13_FinalizedHasExecutableVerdict ==
    \A id \in DOMAIN dispute :
      LET d == dispute[id] IN
      /\ d.phase = "Finalized" =>
           /\ d.verdict \in {Some("passenger"), Some("airline")}
           /\ now > d.appeal_deadline
      /\ (d.phase = "Appeal" /\ now <= d.appeal_deadline) =>
           execute_verdict_err(id) = "Appeal period not ended"
      /\ d.verdict = Some("tie") => execute_verdict_err(id) # ""

\* C13 witness: a verdict has just been executed while another second of the
\* appeal window would still have been open one tick earlier
C13_Witness ==
    /\ last.op = "execute_verdict"
    /\ dispute[last.d].phase = "Finalized"
    /\ now = dispute[last.d].appeal_deadline + 1

C14_Fields(d) ==
    <<d.phase, d.verdict, d.votes_for_passenger, d.votes_for_airline,
      d.passenger_stake, d.airline_stake, d.evidence_deadline, d.voting_deadline,
      d.reveal_deadline, d.appeal_deadline>>

\* C14: once a dispute is Finalized no step changes its phase, verdict,
\* tallies, stakes or deadlines or removes its record, and every call of an
\* entry point that writes a dispute other than execute_verdict is refused for
\* every caller.
C14_FinalizedTerminal ==
    [][\A id \in DOMAIN dispute :
         dispute[id].phase = "Finalized" =>
           /\ id \in DOMAIN dispute'
           /\ C14_Fields(dispute'[id]) = C14_Fields(dispute[id])
           /\ \A a \in Addresses : (get_stake(id, a))' = get_stake(id, a)
           /\ \A a \in Addresses :
                /\ \A st \in {0, 3, 50} : airline_respond_err(a, id, st) # ""
                /\ \A st \in {0, 3, 50} : file_appeal_err(a, id, st) # ""
                /\ submit_evidence_err(a, id, 11, "doc") # ""
                /\ \A b \in {0, 10} : select_as_juror_err(a, id, b) # ""
                /\ \A h \in CommitHashes : commit_vote_err(a, id, h) # ""
                /\ \A v \in BOOLEAN, sl \in Salts : reveal_vote_err(a, id, v, sl) # ""
           /\ advance_to_reveal_err(id) # ""
           /\ finalize_dispute_err(id) # ""]_vars

\* C14 witness: time has passed on a Finalized dispute the airline never
\* answered, and the airline's response is refused for the phase alone
C14_Witness ==
    /\ last.op = "tick"
    /\ \E id \in DOMAIN dispute :
         /\ dispute[id].phase = "Finalized"
         /\ dispute[id].airline_stake = 0
         /\ airline_respond_err(Airline, id, 3) = "Evidence phase ended"

C16_EvidenceAppendOnly ==
    [][\A k \in DOMAIN evidence :
         k \in DOMAIN evidence' /\ evidence'[k] = evidence[k]]_vars

C17_Stakes == {0, 1, 3}

\* C17: an airline_respond that goes through is the airline's, in phase
\* Evidence, with a stake of at least amount * min_stake_percentage / 10000,
\* and after it every airline_respond on that dispute fails.
C17_RespondAtMostOnce ==
    [][\A id \in DOMAIN dispute :
         (last'.op = "airline_respond" /\ last'.d = id) =>
           /\ last'.caller = dispute[id].airline
           /\ dispute[id].phase = "Evidence"
           /\ last'.args[1] >= QuotientTowardZero(
                                   dispute[id].amount * unwrap(config).min_stake_percentage,
                                   10000)
           /\ \A a \in Addresses, st \in C17_Stakes :
                (airline_respond_err(a, id, st))' # ""]_vars

C18_Stakes == {-4, -3, 2, 3}

\* the party the verdict went against
C18_Loser(d) ==
    IF d.verdict = Some("airline") THEN {d.passenger}
    ELSE IF d.verdict = Some("passenger") THEN {d.airline}
    ELSE {}

\* C18: file_appeal goes through iff the phase is Appeal, the appeal deadline
\* has not passed, the dispute was not appealed, the stake is at least
\* amount * appeal_stake_multiplier / 10000, and the appellant is the party
\* the verdict went against; within an open appeal window everyone else (the
\* winner, a third party, anyone on a tie) fails with "Only losing party can
\* appeal".
C18_OnlyLoserAppeals ==
    \A id \in DOMAIN dispute, a \in Addresses, st \in C18_Stakes :
      LET d == dispute[id]
          open == d.phase = "Appeal" /\ now <= d.appeal_deadline /\ ~d.appealed
          err == file_appeal_err(a, id, st)
      IN /\ (err = "") <=>
              /\ open
              /\ a \in C18_Loser(d)
              /\ st >= QuotientTowardZero(
                          d.amount * unwrap(config).appeal_stake_multiplier, 10000)
         /\ (open /\ a \notin C18_Loser(d)) => err = "Only losing party can appeal"

\* C18 witness: a verdict for the passenger has just been stored; the airline
\* may appeal, the passenger and a third party may not
C18_Witness ==
    /\ last.op = "finalize_dispute"
    /\ dispute[last.d].verdict = Some("passenger")
    /\ file_appeal_err(Airline, last.d, 3) = ""
    /\ file_appeal_err(Passenger, last.d, 3) = "Only losing party can appeal"
    /\ file_appeal_err("j1", last.d, 3) = "Only losing party can appeal"

\* a dispute no sequence of calls and clock advances takes to Finalized: its
\* jury is full before the commit round (every select_as_juror fails), or the
\* reveal round closed with no vote (finalize_dispute fails), or its verdict
\* is a tie (file_appeal and execute_verdict fail)
DeadEnd(id) ==
    LET d == dispute[id] IN
    \/ d.phase \in {"Evidence", "JurySelection"} /\ get_juror_count(id) >= d.jury_size
    \/ /\ d.phase = "RevealVote"
       /\ now > d.reveal_deadline
       /\ d.votes_for_passenger + d.votes_for_airline = 0
    \/ d.phase = "Appeal" /\ d.verdict = Some("tie")

\* a dead end is never left, and none of the calls that move the phase on
\* from it passes its checks
DeadEndIsClosed ==
    [][\A id \in DOMAIN dispute :
         DeadEnd(id) =>
           /\ id \in DOMAIN dispute' /\ (DeadEnd(id))'
           /\ \A a \in Addresses :
                /\ \A b \in {0, 10} : select_as_juror_err(a, id, b) # ""
                /\ \A v \in BOOLEAN, sl \in Salts : reveal_vote_err(a, id, v, sl) # ""
                /\ \A st \in {0, 3, 50} : file_appeal_err(a, id, st) # ""
           /\ finalize_dispute_err(id) # ""
           /\ execute_verdict_err(id) # ""]_vars

\* C19: no dispute is ever in a state from which Finalized is out of reach.
C19_NoDeadEnd ==
    \A id \in DOMAIN dispute : ~DeadEnd(id)

\* C20: a clock advance changes nothing in the store, and a dispute leaves
\* phase Evidence (other than by a new round after an appeal, which enters
\* it) only in a select_as_juror call on it made after its evidence_deadline;
\* that call stores JurySelection, or CommitVote when it fills the jury.
C20_ObserverTriggered ==
    [][/\ now' # now => store' = store
       /\ \A id \in DOMAIN dispute :
            (dispute[id].phase = "Evidence" /\ dispute'[id].phase # "Evidence") =>
              /\ last'.op = "select_as_juror"
              /\ last'.d = id
              /\ now > dispute[id].evidence_deadline
              /\ dispute'[id].phase \in {"JurySelection", "CommitVote"}
       /\ \A id \in DOMAIN dispute :
            (dispute[id].phase # "JurySelection" /\ dispute'[id].phase = "JurySelection") =>
              /\ dispute[id].phase = "Evidence"
              /\ last'.op = "select_as_juror"
              /\ now > dispute[id].evidence_deadline]_vars

\* C20 witness: the first juror has just been admitted two seconds or more
\* after the evidence deadline, and the admission stored JurySelection
C20_Witness ==
    /\ last.op = "select_as_juror"
    /\ dispute[last.d].phase = "JurySelection"
    /\ get_juror_count(last.d) = 1
    /\ now >= dispute[last.d].evidence_deadline + 2

\* C21: an address flagged is_juror for a dispute stays flagged in every later
\* state, after file_appeal too, and select_as_juror by a flagged address on
\* that dispute fails for every token weight.
C21_JurorFlagMonotonic ==
    [][/\ is_juror \subseteq is_juror'
       /\ \A k \in is_juror' :
            \A b \in {0, 10} : (select_as_juror_err(k[2], k[1], b))' # ""]_vars

\* C21 witness: a juror of the first round asks to be selected again after an
\* appeal and the new evidence deadline, and is refused as already selected
C21_Witness ==
    \E k \in is_juror :
      /\ dispute[k[1]].appealed
      /\ now > dispute[k[1]].evidence_deadline
      /\ select_as_juror_err(k[2], k[1], 10) = "Already selected"

\* the indices of the stored juror slots of a dispute
Slots(id) == {k[2] : k \in {x \in DOMAIN juror : x[1] = id}}

\* C22: the juror slots of a dispute are those of the indices 0 .. n-1 with
\* n = get_juror_count <= jury_size, they hold pairwise distinct addresses,
\* and an address is flagged is_juror iff it holds a slot; select_as_juror
\* with a weight <= 0 or on a full panel fails.
C22_PanelConsistency ==
    \A id \in DOMAIN dispute :
      LET n == Cardinality(Slots(id)) IN
      /\ Slots(id) = 0 .. (n - 1)
      /\ get_juror_count(id) = n
      /\ n <= dispute[id].jury_size
      /\ \A i \in Slots(id), j \in Slots(id) :
           juror[<<id, i>>].juror = juror[<<id, j>>].juror => i = j
      /\ \A a \in Addresses :
           (<<id, a>> \in is_juror) <=> (\E i \in Slots(id) : juror[<<id, i>>].juror = a)
      /\ \A a \in Addresses :
           /\ \A b \in {-1, 0} : select_as_juror_err(a, id, b) # ""
           /\ n >= dispute[id].jury_size => select_as_juror_err(a, id, 10) # ""

\* C22 witness: the second juror has just filled a panel of two, and a third
\* candidate is refused for the full panel
C22_Witness ==
    /\ last.op = "select_as_juror"
    /\ dispute[last.d].jury_size = 2
    /\ Slots(last.d) = {0, 1}
    /\ select_as_juror_err("j3", last.d, 10) = "Jury full"

\* C23: a stored VoteCommit stays stored with the same commit_hash in every
\* later state, and every commit_vote of a juror with a stored commit fails,
\* whatever the hash and also after an appeal.
C23_CommitImmutable ==
    [][/\ \A k \in DOMAIN v_commit :
            /\ k \in DOMAIN v_commit'
            /\ v_commit'[k].commit_hash = v_commit[k].commit_hash
       /\ \A k \in DOMAIN v_commit' :
            \A h \in CommitHashes : (commit_vote_err(k[2], k[1], h))' # ""]_vars

\* C23 witness: a juror has just committed, and the same juror's commit of
\* another hash, still within the commit round, is refused
C23_Witness ==
    /\ last.op = "commit_vote"
    /\ \E h \in CommitHashes :
         /\ h # last.args[1]
         /\ commit_vote_err(last.caller, last.d, h) = "Already committed"

\* C24: a stored VoteReveal never changes and a juror with a stored reveal
\* fails in reveal_vote; a reveal_vote adds exactly 1 to one tally, and the
\* two tallies together never exceed jury_size.
C24_RevealOnce ==
    [][/\ \A k \in DOMAIN v_reveal :
            k \in DOMAIN v_reveal' /\ v_reveal'[k] = v_reveal[k]
       /\ \A k \in DOMAIN v_reveal' :
            \A v \in BOOLEAN, sl \in Salts : (reveal_vote_err(k[2], k[1], v, sl))' # ""
       /\ \A id \in DOMAIN dispute :
            LET before == dispute[id].votes_for_passenger + dispute[id].votes_for_airline
                after == dispute'[id].votes_for_passenger + dispute'[id].votes_for_airline
            IN /\ after > before =>
                    /\ after = before + 1
                    /\ last'.op = "reveal_vote"
                    /\ <<id, last'.caller>> \notin DOMAIN v_reveal
               /\ after <= dispute'[id].jury_size]_vars

\* C24 witness: a juror has just revealed, and the same reveal sent again is
\* refused as already revealed
C24_Witness ==
    /\ last.op = "reveal_vote"
    /\ reveal_vote_err(last.caller, last.d, last.args[1], last.args[2]) = "Already revealed"

\* C25: every address with a stored VoteReveal for a dispute has a stored
\* VoteCommit for it, every address with a stored VoteCommit is flagged
\* is_juror for it, and neither party of a dispute has a commit or a reveal.
C25_RecordContainment ==
    /\ DOMAIN v_reveal \subseteq DOMAIN v_commit
    /\ DOMAIN v_commit \subseteq is_juror
    /\ \A id \in DOMAIN dispute :
         \A a \in {dispute[id].passenger, dispute[id].airline} :
           <<id, a>> \notin DOMAIN v_commit /\ <<id, a>> \notin DOMAIN v_reveal

\* C25 witness: a juror has just committed while the passenger's commit is
\* refused for not being a juror
C25_Witness ==
    /\ last.op = "commit_vote"
    /\ DOMAIN v_commit # {}
    /\ commit_vote_err(Passenger, last.d, BogusHash) = "Not a juror"

C26_Frame(d) ==
    <<d.phase, d.passenger_stake, d.airline_stake, d.evidence_deadline, d.voting_deadline,
      d.reveal_deadline, d.appeal_deadline, d.votes_for_passenger, d.votes_for_airline>>

\* C26: submit_evidence goes through iff the phase is Evidence, the evidence
\* deadline has not passed and the submitter is the passenger or the airline
\* of the dispute; it adds one to the submitter's evidence counter and leaves
\* the other counter, the phase, the stakes, the deadlines and the tallies as
\* they were.
C26_SubmitEvidence ==
    [][\A id \in DOMAIN dispute, a \in Addresses :
         LET d == dispute[id] IN
         /\ (submit_evidence_err(a, id, 11, "doc") = "")
              <=> /\ d.phase = "Evidence"
                  /\ now <= d.evidence_deadline
                  /\ a \in {d.passenger, d.airline}
         /\ (last'.op = "submit_evidence" /\ last'.d = id /\ last'.caller = a) =>
              /\ a \in {d.passenger, d.airline}
              /\ dispute'[id].passenger_evidence_count
                   = d.passenger_evidence_count + (IF a = d.passenger THEN 1 ELSE 0)
              /\ dispute'[id].airline_evidence_count
                   = d.airline_evidence_count + (IF a = d.airline THEN 1 ELSE 0)
              /\ C26_Frame(dispute'[id]) = C26_Frame(d)
              /\ stake' = stake]_vars

\* C26 witness: the airline has just submitted its first evidence, the
\* passenger's counter is 0, and a third party's submission is refused
C26_Witness ==
    /\ last.op = "submit_evidence"
    /\ last.caller = Airline
    /\ dispute[last.d].airline_evidence_count = 1
    /\ dispute[last.d].passenger_evidence_count = 0
    /\ submit_evidence_err("j1", last.d, 11, "doc") = "Not a party to dispute"

\* C27: passenger_stake is at least amount * min_stake_percentage / 10000 and
\* airline_stake is 0 or at least that floor; passenger_stake never changes,
\* airline_stake is changed only by an airline_respond on the dispute, and
\* not again once a response has set it.
C27_StakeFloor ==
    [][\A id \in DOMAIN dispute :
         LET d == dispute[id]
             floor == QuotientTowardZero(d.amount * unwrap(config).min_stake_percentage, 10000)
         IN /\ d.passenger_stake >= floor
            /\ d.airline_stake = 0 \/ d.airline_stake >= floor
            /\ dispute'[id].passenger_stake = d.passenger_stake
            /\ dispute'[id].airline_stake # d.airline_stake =>
                 last'.op = "airline_respond" /\ last'.d = id
            /\ d.airline_stake # 0 => dispute'[id].airline_stake = d.airline_stake
            /\ (last.op = "airline_respond" /\ last.d = id) =>
                 dispute'[id].airline_stake = d.airline_stake]_vars

\* C28: the four deadlines of every dispute are strictly increasing.
C28_DeadlinesStrictlyIncreasing ==
    \A id \in DOMAIN dispute :
      LET d == dispute[id] IN
      /\ d.evidence_deadline < d.voting_deadline
      /\ d.voting_deadline < d.reveal_deadline
      /\ d.reveal_deadline < d.appeal_deadline

C29_Deadlines(d) ==
    <<d.evidence_deadline, d.voting_deadline, d.reveal_deadline, d.appeal_deadline>>

\* C29: a file_dispute or file_appeal that goes through at time t stores
\* evidence_deadline = t + evidence_period, voting_deadline = evidence_deadline
\* + voting_period, reveal_deadline = voting_deadline + reveal_period and
\* appeal_deadline = reveal_deadline + appeal_period, t being the time of the
\* call (created_at is left as it was by an appeal); no other step changes a
\* deadline.
C29_DeadlineComputation ==
    [][\A id \in DOMAIN dispute' :
         LET d2 == dispute'[id]
             filed == last'.op = "file_dispute" /\ last'.d = id
             appealed == last'.op = "file_appeal" /\ last'.d = id
         IN /\ (filed \/ appealed) =>
                 /\ now' = now
                 /\ d2.evidence_deadline = now + unwrap(config).evidence_period
                 /\ d2.voting_deadline = d2.evidence_deadline + unwrap(config).voting_period
                 /\ d2.reveal_deadline = d2.voting_deadline + unwrap(config).reveal_period
                 /\ d2.appeal_deadline = d2.reveal_deadline + unwrap(config).appeal_period
            /\ filed => id \notin DOMAIN dispute /\ d2.created_at = now
            /\ appealed => id \in DOMAIN dispute /\ d2.created_at = dispute[id].created_at
            /\ ~(filed \/ appealed) =>
                 id \in DOMAIN dispute /\ C29_Deadlines(d2) = C29_Deadlines(dispute[id])]_vars

\* C29 witness: an appeal has just gone through later than the filing, under
\* a configuration whose periods differ, and the evidence deadline is the
\* time of the appeal plus the evidence period
C29_Witness ==
    /\ last.op = "file_appeal"
    /\ now > dispute[last.d].created_at + 2
    /\ unwrap(config).evidence_period # unwrap(config).voting_period
    /\ dispute[last.d].evidence_deadline = now + unwrap(config).evidence_period

\* the stake recorded for a party of a dispute, 0 when there is none
C30_Recorded(st, k) == IF k \in DOMAIN st THEN st[k] ELSE 0

\* C30: a file_appeal that goes through adds exactly appeal_stake to the
\* appellant's stake record and changes no other stake record; the Dispute
\* fields passenger_stake and airline_stake, and with them the reward pool,
\* stay as they were.
C30_AppealStakeBookkeeping ==
    [][\A id \in DOMAIN dispute, a \in Addresses :
         (last'.op = "file_appeal" /\ last'.d = id /\ last'.caller = a) =>
           /\ DOMAIN stake' = DOMAIN stake \cup {<<id, a>>}
           /\ stake'[<<id, a>>] = C30_Recorded(stake, <<id, a>>) + last'.args[1]
           /\ \A k \in DOMAIN stake : k # <<id, a>> => stake'[k] = stake[k]
           /\ dispute'[id].passenger_stake = dispute[id].passenger_stake
           /\ dispute'[id].airline_stake = dispute[id].airline_stake
           /\ (JuryRewardPool(dispute[id], unwrap(config)))'
                = JuryRewardPool(dispute[id], unwrap(config))]_vars

\* C30 witness: an appellant with a stake on record has just appealed; the
\* record now exceeds the appeal stake and differs from the Dispute field
C30_Witness ==
    /\ last.op = "file_appeal"
    /\ stake[<<last.d, last.caller>>] > last.args[1]
    /\ last.args[1] > 0
    /\ stake[<<last.d, last.caller>>]
         # (IF last.caller = Passenger THEN dispute[last.d].passenger_stake
                                     ELSE dispute[last.d].airline_stake)

\* the fields of a Dispute that identify it
C31_Identity(d) == <<d.dispute_id, d.passenger, d.airline, d.amount, d.jury_size>>

\* C31: dispute ids are 1-based and monotonic: a file_dispute that goes
\* through raises the dispute count by one and returns the new count, no other
\* step changes the count, the stored disputes are exactly those of the ids
\* 1 .. count, each stored under its own dispute_id, and the dispute_id,
\* passenger, airline, amount and jury_size of a stored dispute never change.
C31_DisputeIds ==
    [][/\ IF last'.op = "file_dispute"
          THEN /\ d_count' = d_count + 1
               /\ last'.ret = d_count'
               /\ last'.d = d_count'
          ELSE d_count' = d_count
       /\ DOMAIN dispute' = 1 .. d_count'
       /\ \A id \in DOMAIN dispute' : dispute'[id].dispute_id = id
       /\ \A id \in DOMAIN dispute :
            /\ id \in DOMAIN dispute'
            /\ C31_Identity(dispute'[id]) = C31_Identity(dispute[id])]_vars

\* C31 witness: the second filing has just returned 2, after the airline
\* answered the first dispute, which was filed a second earlier
C31_Witness ==
    /\ last.op = "file_dispute"
    /\ last.ret = 2
    /\ d_count = 2
    /\ dispute[1].airline_stake # 0
    /\ dispute[1].created_at < dispute[2].created_at

\* C32: commits never follow reveals: while a dispute has a stored reveal no
\* commit_vote on it passes its checks, for any caller and hash and also after
\* an appeal, and a commit_vote that has just gone through left a dispute
\* without any reveal.
C32_NoCommitAfterReveal ==
    /\ \A id \in DOMAIN dispute :
         Reveals(id) # {} =>
           \A a \in Addresses, h \in CommitHashes : commit_vote_err(a, id, h) # ""
    /\ last.op = "commit_vote" => Reveals(last.d) = {}

\* C32 witness: after an appeal, within the new voting period, a juror who
\* never committed is refused for the phase while another juror's reveal of
\* the first round is on record
C32_Witness ==
    \E id \in DOMAIN dispute, j \in Addresses :
      /\ dispute[id].appealed
      /\ now <= dispute[id].voting_deadline
      /\ Reveals(id) # {}
      /\ Uncommitted(id, j)
      /\ commit_vote_err(j, id, keccak256(<<1, 7>>)) = "Not in commit phase"

\* C33: execute_verdict goes through at most once per dispute: on a Finalized
\* dispute every further execute_verdict fails.
C33_ExecuteAtMostOnce ==
    \A id \in DOMAIN dispute :
      dispute[id].phase = "Finalized" => execute_verdict_err(id) # ""

\* C34: a tie is a dead end: a dispute with verdict tie is in phase Appeal,
\* keeps phase Appeal and verdict tie in every step, execute_verdict on it
\* fails, and file_appeal on it fails for every caller and stake.
C34_TieIsDeadEnd ==
    [][\A id \in DOMAIN dispute :
         dispute[id].verdict = Some("tie") =>
           /\ dispute[id].phase = "Appeal"
           /\ execute_verdict_err(id) # ""
           /\ \A a \in Addresses, st \in {0, 3, 50} : file_appeal_err(a, id, st) # ""
           /\ id \in DOMAIN dispute'
           /\ dispute'[id].phase = "Appeal"
           /\ dispute'[id].verdict = Some("tie")]_vars

\* C34 witness: the appeal window of a tie has lapsed, and execute_verdict is
\* refused for the tie
C34_Witness ==
    \E id \in DOMAIN dispute :
      /\ dispute[id].verdict = Some("tie")
      /\ now > dispute[id].appeal_deadline
      /\ execute_verdict_err(id) = "Cannot execute tie verdict"

\* C35: the loser always gets an appeal window: when finalize_dispute has just
\* gone through with a verdict for one party, the appeal deadline has not
\* passed, file_appeal by the losing party with a sufficient stake passes its
\* checks, and execute_verdict does not.
C35_AppealWindow ==
    (last.op = "finalize_dispute" /\ dispute[last.d].verdict # Some("tie")) =>
      /\ now <= dispute[last.d].appeal_deadline
      /\ \A a \in C18_Loser(dispute[last.d]) : file_appeal_err(a, last.d, 3) = ""
      /\ execute_verdict_err(last.d) # ""

\* C36: a dispute in phase CommitVote, RevealVote, Appeal or Finalized has a
\* full panel; CommitVote is entered only by the select_as_juror that fills
\* the last slot, and while the phase is CommitVote select_as_juror fails for
\* every caller and weight.
C36_PanelFullOnceVoting ==
    [][\A id \in DOMAIN dispute' :
         /\ dispute'[id].phase \in {"CommitVote", "RevealVote", "Appeal", "Finalized"}
              => (get_juror_count(id))' = dispute'[id].jury_size
         /\ dispute'[id].phase = "CommitVote" =>
              \A a \in Addresses, b \in {0, 10} : (select_as_juror_err(a, id, b))' # ""
         /\ (dispute'[id].phase = "CommitVote"
               /\ (id \notin DOMAIN dispute \/ dispute[id].phase # "CommitVote")) =>
              /\ last'.op = "select_as_juror"
              /\ last'.d = id
              /\ get_juror_count(id) = dispute[id].jury_size - 1]_vars

\* C36 witness: a juror of a panel of two has just committed, and a third
\* candidate is refused for the full panel
C36_Witness ==
    /\ last.op = "commit_vote"
    /\ dispute[last.d].phase = "CommitVote"
    /\ dispute[last.d].jury_size = 2
    /\ get_juror_count(last.d) = 2
    /\ select_as_juror_err("j3", last.d, 10) = "Jury full"

\* C37: jury admission never overlaps the evidence period: while now is at
\* most the evidence deadline of a dispute select_as_juror on it fails for
\* every caller and weight, in the first round and after an appeal, and a
\* select_as_juror that has just gone through happened after that deadline.
C37_AdmissionAfterEvidence ==
    /\ \A id \in DOMAIN dispute :
         now <= dispute[id].evidence_deadline =>
           \A a \in Addresses, b \in {0, 10} : select_as_juror_err(a, id, b) # ""
    /\ last.op = "select_as_juror" => now > dispute[last.d].evidence_deadline

\* C37 witness: at the evidence deadline of the round after an appeal, a
\* candidate who is no party and was never selected is refused for the phase
C37_Witness ==
    \E id \in DOMAIN dispute :
      /\ dispute[id].appealed
      /\ now = dispute[id].evidence_deadline
      /\ select_as_juror_err("j3", id, 10) = "Not in jury selection phase"

\* C38: the verdict of a dispute is set iff its phase is Appeal or Finalized;
\* in Evidence, JurySelection, CommitVote and RevealVote it is None, also in
\* the round after an appeal.
C38_VerdictPhaseCoupling ==
    \A id \in DOMAIN dispute :
      (dispute[id].verdict # None) <=> (dispute[id].phase \in {"Appeal", "Finalized"})

\* C38 witness: an appeal against a verdict has just gone through and the
\* dispute is back in Evidence without a verdict
C38_Witness ==
    /\ last.op = "file_appeal"
    /\ dispute[last.d].phase = "Evidence"
    /\ dispute[last.d].verdict = None
    /\ Reveals(last.d) # {}

\* the entries of a dispute in the stores keyed by (dispute, ...)
C39_Keyed(id) ==
    <<[k \in {x \in DOMAIN evidence : x[1] = id} |-> evidence[k]],
      [k \in {x \in DOMAIN juror : x[1] = id} |-> juror[k]],
      {k \in is_juror : k[1] = id},
      [k \in {x \in DOMAIN v_commit : x[1] = id} |-> v_commit[k]],
      [k \in {x \in DOMAIN v_reveal : x[1] = id} |-> v_reveal[k]],
      [k \in {x \in DOMAIN stake : x[1] = id} |-> stake[k]]>>

\* C39: disputes are isolated from each other: a step on dispute d leaves the
\* record, evidence, juror slots, membership flags, commits, reveals and stake
\* records of every other dispute as they were, and only file_dispute changes
\* the dispute count.
C39_DisputeIsolation ==
    [][/\ \A id \in DOMAIN dispute :
            id # last'.d =>
              /\ id \in DOMAIN dispute'
              /\ dispute'[id] = dispute[id]
              /\ (C39_Keyed(id))' = C39_Keyed(id)
       /\ d_count' # d_count => last'.op = "file_dispute"]_vars

\* C39 witness: the reveal round of the first dispute has just been opened
\* while the second dispute, with the same juror, is in its commit round
C39_Witness ==
    /\ last.op = "advance_to_reveal"
    /\ last.d = 1
    /\ 2 \in DOMAIN dispute
    /\ dispute[2].phase = "CommitVote"
    /\ <<1, "j1">> \in is_juror
    /\ <<2, "j1">> \in is_juror

\* C40: no verdict without a response: a dispute in phase Appeal or Finalized
\* has an airline_stake that is a recorded response at or above the stake
\* floor, and once the evidence deadline has passed airline_respond fails.
C40_NoVerdictWithoutResponse ==
    \A id \in DOMAIN dispute :
      LET d == dispute[id] IN
      /\ d.phase \in {"Appeal", "Finalized"} =>
           /\ d.airline_stake # 0
           /\ <<id, d.airline>> \in DOMAIN stake
           /\ StakeSufficient(d.airline_stake,
                              Percentage(d.amount, unwrap(config).min_stake_percentage))
      /\ now > d.evidence_deadline =>
           \A st \in {0, 3, 50} : airline_respond_err(d.airline, id, st) # ""
====
